---- MODULE Spec2Model ----
(***************************************************************************)
(* A model of vpgl_em_compute_5_point<T> (the five point essential matrix  *)
(* solver) in exact arithmetic.  Reals that the code only adds and         *)
(* multiplies are integers here; the values the code divides are exact     *)
(* fractions extended with the two infinities and NaN of IEEE arithmetic.  *)
(* compute is a sequence of steps, one per stage it calls.                 *)
(***************************************************************************)
EXTENDS Integers, Sequences, FiniteSets, TLC

(***************************************************************************)
(* Bounds of the model.                                                    *)
(***************************************************************************)
\* point lists passed to compute hold NumPoints - MaxDelta .. NumPoints + MaxDelta points
MaxDelta == 1
\* the right point list is a window of PointStream starting at 0..MaxStart
MaxStart == 0
\* number of outcomes of the singular value decomposition kept for one matrix
MaxBases == 2
\* tolerance is drawn from 0..MaxTol
MaxTol == 1
\* imaginary parts of complex eigenvalues have absolute value 1..MaxImag
MaxImag == 1
\* number of complex conjugate pairs among the eigenvalues
MaxPairs == 1
\* number of matrices already in the caller's list when compute is called
MaxPrior == 1
\* entries of a matrix declared without initialiser lie in 0..MaxGarbage
MaxGarbage == 1
\* the eigenvector fixtures are numbered 0..MaxVecSeed
MaxVecSeed == 1
\* largest change of a coefficient of the constraints given to
\* compute_groebner_basis on its own
MaxBump == 3
\* the blackbox tableau records at most MaxStored events
MaxStored == 2

(***************************************************************************)
(* Sizes fixed by the program.                                             *)
(***************************************************************************)
NumPoints == 5
NumEntries == 9
NumBasis == 4
NumConstraints == 10
NumMonomials == 20

(***************************************************************************)
(* Exact arithmetic on the scalar type.                                    *)
(***************************************************************************)
Abs(n) == IF n < 0 THEN -n ELSE n

Sgn(n) == IF n < 0 THEN -1 ELSE IF n = 0 THEN 0 ELSE 1

RECURSIVE Gcd(_, _)
Gcd(a, b) == IF b = 0 THEN a ELSE Gcd(b, a % b)

\* the fraction n/d in lowest terms with a positive denominator;
\* d = 0 gives +infinity (n > 0), -infinity (n < 0) or NaN (n = 0)
Frac(n, d) ==
  IF d = 0 THEN [n |-> Sgn(n), d |-> 0]
  ELSE LET g == Gcd(Abs(n), Abs(d))
           s == Sgn(d)
       IN [n |-> s * (n \div g), d |-> s * (d \div g)]

FromInt(k) == [n |-> k, d |-> 1]

IsFinite(a) == a.d # 0

IsNaN(a) == a.d = 0 /\ a.n = 0

FMul(a, b) == Frac(a.n * b.n, a.d * b.d)

FAdd(a, b) ==
  IF a.d = 0 /\ b.d = 0
  THEN (IF a.n = b.n THEN a ELSE [n |-> 0, d |-> 0])
  ELSE Frac(a.n * b.d + b.n * a.d, a.d * b.d)

FInv(a) == Frac(a.d, a.n)

FDiv(a, b) == FMul(a, FInv(b))

FNeg(a) == [n |-> -a.n, d |-> a.d]

\* the sum f[1] + ... + f[n] of integers
RECURSIVE SumTo(_, _)
SumTo(f, n) == IF n = 0 THEN 0 ELSE f[n] + SumTo(f, n - 1)

\* the sum f[1] + ... + f[n] of fractions
RECURSIVE FSumTo(_, _)
FSumTo(f, n) == IF n = 0 THEN FromInt(0) ELSE FAdd(FSumTo(f, n - 1), f[n])

RECURSIVE DotTo(_, _, _)
DotTo(u, v, n) == IF n = 0 THEN 0 ELSE u[n] * v[n] + DotTo(u, v, n - 1)

Dot(u, v) == DotTo(u, v, Len(u))

(***************************************************************************)
(* vnl_real_npolynomial: polynomials in x, y, z of total degree <= 3.      *)
(* A polynomial is its coefficient for every monomial; its terms are the   *)
(* monomials with a nonzero coefficient.                                   *)
(***************************************************************************)
\* x3 x2y xy2 y3 x2z xyz y2z xz2 yz2 z3 x2 xy y2 xz yz z2 x y z 1
MonomialOrder ==
  << <<3,0,0>>, <<2,1,0>>, <<1,2,0>>, <<0,3,0>>, <<2,0,1>>,
     <<1,1,1>>, <<0,2,1>>, <<1,0,2>>, <<0,1,2>>, <<0,0,3>>,
     <<2,0,0>>, <<1,1,0>>, <<0,2,0>>, <<1,0,1>>, <<0,1,1>>,
     <<0,0,2>>, <<1,0,0>>, <<0,1,0>>, <<0,0,1>>, <<0,0,0>> >>

Monomials == {MonomialOrder[k] : k \in 1..NumMonomials}

PolyZero == [m \in Monomials |-> 0]

PolyAdd(p, q) == [m \in Monomials |-> p[m] + q[m]]

PolySub(p, q) == [m \in Monomials |-> p[m] - q[m]]

PolyScale(p, c) == [m \in Monomials |-> p[m] * c]

\* p.polyn(): one row of exponents for every term of p
polyn(p) == SelectSeq(MonomialOrder, LAMBDA m : p[m] # 0)

\* the coefficient of m in p * q: the sum, over the terms m1 of p that
\* divide m, of the coefficient of m1 in p times that of m / m1 in q
PolyMul(p, q) ==
  LET rows == polyn(p)
  IN [m \in Monomials |->
        SumTo([k \in 1..Len(rows) |->
                 LET m1 == rows[k]
                 IN IF m1[1] <= m[1] /\ m1[2] <= m[2] /\ m1[3] <= m[3]
                    THEN p[m1] * q[<<m[1] - m1[1], m[2] - m1[2], m[3] - m1[3]>>]
                    ELSE 0],
              Len(rows))]

\* p.coefficients(): the coefficient of every term of p, in the order of polyn
coefficients(p) == LET rows == polyn(p) IN [k \in 1..Len(rows) |-> p[rows[k]]]

(***************************************************************************)
(* The inputs of compute.                                                  *)
(***************************************************************************)
\* the points the callers' lists are taken from
PointStream == << <<0, 1>>, <<0, 1>>, <<0, 1>>, <<1, 1>>, <<1, 2>> >>

\* the list of n points that starts at position s of the stream
PointList(n, s) ==
  [i \in 1..n |-> PointStream[((s + i - 1) % Len(PointStream)) + 1]]

\* the pairs <<right_points, left_points>> compute is called with: the left
\* list starts one position after the right list
PointPairs ==
  {<<PointList(nr, s), PointList(nl, s + 1)>> :
     nr \in (NumPoints - MaxDelta)..(NumPoints + MaxDelta),
     nl \in (NumPoints - MaxDelta)..(NumPoints + MaxDelta),
     s \in 0..MaxStart}

(***************************************************************************)
(* S1: compute_nullspace_basis.                                            *)
(***************************************************************************)
\* the 5x9 epipolar constraint matrix (column j here is column j-1 of the code)
EpipolarMatrix(right, left) ==
  [i \in 1..NumPoints |->
     << right[i][1] * left[i][1],
        right[i][2] * left[i][1],
        left[i][1],
        right[i][1] * left[i][2],
        right[i][2] * left[i][2],
        left[i][2],
        right[i][1],
        right[i][2],
        1 >>]

\* the vectors with entries -1, 0, 1 that the matrix a maps to 0; column 9
\* of a holds 1, so the first eight entries of a vector give the last
NullVectors(a) ==
  LET last(u) == 0 - Dot(SubSeq(a[1], 1, NumEntries - 1), u)
      full(u) == Append(u, last(u))
  IN {full(u) : u \in
        {u \in [1..(NumEntries - 1) -> -1..1] :
           /\ last(u) \in -1..1
           /\ \A i \in 2..NumPoints : Dot(a[i], full(u)) = 0}}
     \ {[j \in 1..NumEntries |-> 0]}

\* four pairwise orthogonal members of N, or <<>> when N has none
OrthogonalQuad(N) ==
  LET Orth(S, v) == {u \in S : Dot(u, v) = 0}
      Ok3(b0, b1, b2) == Orth(Orth(Orth(N, b0), b1), b2) # {}
      Ok2(b0, b1) == \E b2 \in Orth(Orth(N, b0), b1) : Ok3(b0, b1, b2)
      Ok1(b0) == \E b1 \in Orth(N, b0) : Ok2(b0, b1)
  IN IF \E b0 \in N : Ok1(b0)
     THEN LET b0 == CHOOSE b \in N : Ok1(b)
              b1 == CHOOSE b \in Orth(N, b0) : Ok2(b0, b)
              b2 == CHOOSE b \in Orth(Orth(N, b0), b1) : Ok3(b0, b1, b)
              b3 == CHOOSE b \in Orth(Orth(Orth(N, b0), b1), b2) : TRUE
          IN <<b0, b1, b2, b3>>
     ELSE <<>>

\* vnl_svd<T>::V(): the right singular vectors of a, scaled to integers.
\* Columns 6..9 are pairwise orthogonal vectors of the right nullspace, in
\* one of MaxBases orders; the first five columns span the row space of a.
SvdV(a) ==
  LET q == OrthogonalQuad(NullVectors(a))
  IN IF q = <<>> THEN {}
     ELSE {[j \in 1..NumEntries |->
              [c \in 1..NumEntries |->
                 IF c <= NumPoints THEN a[c][j]
                 ELSE q[((c - NumPoints - 1 + s) % NumBasis) + 1][j]]] :
           s \in 0..(MaxBases - 1)}

\* the decompositions of the matrices compute can build from its inputs
SvdTable ==
  LET valid == {p \in PointPairs : Len(p[1]) = NumPoints /\ Len(p[2]) = NumPoints}
  IN [a \in {EpipolarMatrix(p[1], p[2]) : p \in valid} |-> SvdV(a)]

\* the first four columns of V instead of the last four
NullspaceBasis_FirstFour(V) ==
  [k \in 1..NumBasis |-> [j \in 1..NumEntries |-> V[j][k]]]

\* lines 150-159: the last four columns of V, in order
NullspaceBasis(V) ==
  [k \in 1..NumBasis |-> [j \in 1..NumEntries |-> V[j][NumPoints + k]]]

(***************************************************************************)
(* S2: compute_constraint_polynomials.                                     *)
(***************************************************************************)
\* lines 184-198: entry i of E is x*X[i] + y*Y[i] + z*Z[i] + W[i]
EntryPolynomials(basis) ==
  [i \in 1..NumEntries |->
     [m \in Monomials |->
        IF m = <<1,0,0>> THEN basis[1][i]
        ELSE IF m = <<0,1,0>> THEN basis[2][i]
        ELSE IF m = <<0,0,1>> THEN basis[3][i]
        ELSE IF m = <<0,0,0>> THEN basis[4][i]
        ELSE 0]]

\* lines 208-222: the polynomial of det(E)
DetPolynomial(ep) ==
  LET E(k) == ep[k + 1]
      det_term_1 == PolyMul(E(4), PolySub(PolyMul(E(0), E(8)), PolyMul(E(6), E(2))))
      det_term_2 == PolyMul(E(5), PolySub(PolyMul(E(1), E(6)), PolyMul(E(0), E(7))))
      det_term_3 == PolyMul(E(3), PolySub(PolyMul(E(2), E(7)), PolyMul(E(1), E(8))))
  IN PolyAdd(PolyAdd(det_term_1, det_term_2), det_term_3)

\* lines 241-247: the sum of the squares of the entries of E
SumOfSquares(ep) ==
  LET E(k) == ep[k + 1]
      RECURSIVE Upto(_)
      Upto(i) == IF i = 0 THEN PolyMul(E(0), E(0))
                 ELSE PolyAdd(Upto(i - 1), PolyMul(E(i), E(i)))
  IN Upto(NumEntries - 1)

\* lines 253-256, 264-267, 273-276: the term of constraint i built on row r of E,
\*   E[(i%3)+r] * (E[r]*E[3(i%3)]*2 + E[r+1]*E[3(i%3)+1]*2 + E[r+2]*E[3(i%3)+2]*2)
ConstraintTerm(ep, i, r) ==
  LET E(k) == ep[k + 1]
      c == 3 * (i % 3)
  IN PolyMul(E((i % 3) + r),
       PolyAdd(PolyAdd(PolyScale(PolyMul(E(r), E(c)), 2),
                       PolyScale(PolyMul(E(r + 1), E(c + 1)), 2)),
               PolyScale(PolyMul(E(r + 2), E(c + 2)), 2)))

\* lines 172-278: the list constraints after the call
compute_constraint_polynomials(basis, constraints) ==
  LET ep == EntryPolynomials(basis)
      sum_of_squares == SumOfSquares(ep)
      \* line 222
      pushed0 == Append(constraints, DetPolynomial(ep))
      \* lines 251-259: one push_back for each i in 0..8
      RECURSIVE Pushed(_)
      Pushed(i) ==
        IF i = 0 THEN pushed0
        ELSE Append(Pushed(i - 1),
                    PolySub(ConstraintTerm(ep, i - 1, 0),
                            PolyMul(ep[i], sum_of_squares)))
      first == Pushed(NumEntries)
      \* lines 262-268: constraints[i] for i in 0..8 gets the next term
      second == [k \in 1..Len(first) |->
                   IF k <= NumEntries
                   THEN PolyAdd(first[k], ConstraintTerm(ep, k - 1, 3))
                   ELSE first[k]]
      \* lines 271-277: and the last term
      third == [k \in 1..Len(second) |->
                  IF k <= NumEntries
                  THEN PolyAdd(second[k], ConstraintTerm(ep, k - 1, 6))
                  ELSE second[k]]
  IN third

(***************************************************************************)
(* S3: compute_groebner_basis.                                             *)
(***************************************************************************)
\* lines 286-298: the coefficient of the first term of p with the given
\* powers of x, y and z
get_coeff(p, x_p, y_p, z_p) ==
  LET rows == polyn(p)
      hits == {i \in 1..Len(rows) :
                 x_p = rows[i][1] /\ y_p = rows[i][2] /\ z_p = rows[i][3]}
  IN IF hits # {}
     THEN coefficients(p)[CHOOSE i \in hits : \A h \in hits : i <= h]
     ELSE -1

\* lines 308-332: the 10x20 matrix A of the coefficients of the constraints
CoefficientMatrix(constraints) ==
  [i \in 1..NumConstraints |->
     [j \in 1..NumMonomials |->
        get_coeff(constraints[i], MonomialOrder[j][1], MonomialOrder[j][2],
                  MonomialOrder[j][3])]]

\* vnl_rank_row_reduce: the reduced row echelon form of the matrix m of
\* integers, as a matrix of fractions
vnl_rank_row_reduce(m) ==
  LET nrows == Len(m)
      ncols == Len(m[1])
      RECURSIVE From(_, _, _)
      From(a, r, c) ==
        IF r > nrows \/ c > ncols THEN a
        ELSE LET cand == {i \in r..nrows : a[i][c].n # 0}
             IN IF cand = {} THEN From(a, r, c + 1)
                ELSE LET p == CHOOSE i \in cand : \A h \in cand : i <= h
                         piv == a[p][c]
                         prow == [j \in 1..ncols |-> FDiv(a[p][j], piv)]
                         other(i) == IF i = p THEN a[r] ELSE a[i]
                         next == [i \in 1..nrows |->
                                    IF i = r THEN prow
                                    ELSE [j \in 1..ncols |->
                                            FAdd(other(i)[j],
                                                 FNeg(FMul(other(i)[c], prow[j])))]]
                     IN From(next, r + 1, c + 1)
  IN From([i \in 1..nrows |-> [j \in 1..ncols |-> FromInt(m[i][j])]], 1, 1)

\* lines 301-345: the matrix groebner_basis after the call
compute_groebner_basis(constraints, groebner_basis) ==
  LET A == CoefficientMatrix(constraints)
      rrefed == vnl_rank_row_reduce(A)
  IN [i \in 1..NumConstraints |->
        [j \in 1..NumConstraints |-> A[i][j + NumConstraints]]]

(***************************************************************************)
(* S4: compute_action_matrix.                                              *)
(***************************************************************************)
\* the action matrix without the fill of line 354: what the matrix held
\* before the call stays in the entries the call does not write
compute_action_matrix_NoFill(groebner_basis, action_matrix) ==
  LET n == Len(action_matrix)
      source == <<0, 1, 2, 4, 5, 7>>
      rows == [i \in 1..n |->
                 [j \in 1..n |->
                    IF i <= Len(source) /\ j <= Len(groebner_basis[source[i] + 1])
                    THEN groebner_basis[source[i] + 1][j]
                    ELSE action_matrix[i][j]]]
      negated == [i \in 1..n |-> [j \in 1..n |-> rows[i][j] * (-1)]]
      ones == {<<6, 0>>, <<7, 1>>, <<8, 3>>, <<9, 6>>}
  IN [i \in 1..n |->
        [j \in 1..n |-> IF <<i - 1, j - 1>> \in ones THEN 1 ELSE negated[i][j]]]

\* the action matrix with the rows of multiplication by z: rows 0..5 from
\* rows 4, 5, 6, 7, 8, 9 of groebner_basis, the ones at columns 3, 4, 5, 8
compute_action_matrix_ByZ(groebner_basis, action_matrix) ==
  LET n == Len(action_matrix)
      filled == [i \in 1..n |-> [j \in 1..n |-> 0]]
      source == <<4, 5, 6, 7, 8, 9>>
      rows == [i \in 1..n |->
                 [j \in 1..n |->
                    IF i <= Len(source) /\ j <= Len(groebner_basis[source[i] + 1])
                    THEN groebner_basis[source[i] + 1][j]
                    ELSE filled[i][j]]]
      negated == [i \in 1..n |-> [j \in 1..n |-> rows[i][j] * (-1)]]
      ones == {<<6, 3>>, <<7, 4>>, <<8, 5>>, <<9, 8>>}
  IN [i \in 1..n |->
        [j \in 1..n |-> IF <<i - 1, j - 1>> \in ones THEN 1 ELSE negated[i][j]]]

\* lines 350-368: the matrix action_matrix after the call
compute_action_matrix(groebner_basis, action_matrix) ==
  LET n == Len(action_matrix)
      \* line 354
      filled == [i \in 1..n |-> [j \in 1..n |-> 0]]
      \* lines 356-361: rows 0..5 are rows 0, 1, 2, 4, 5, 7 of groebner_basis
      source == <<0, 1, 2, 4, 5, 7>>
      rows == [i \in 1..n |->
                 [j \in 1..n |->
                    IF i <= Len(source) /\ j <= Len(groebner_basis[source[i] + 1])
                    THEN groebner_basis[source[i] + 1][j]
                    ELSE filled[i][j]]]
      \* line 362
      negated == [i \in 1..n |-> [j \in 1..n |-> rows[i][j] * (-1)]]
      \* lines 364-367
      ones == {<<6, 0>>, <<7, 1>>, <<8, 3>>, <<9, 6>>}
  IN [i \in 1..n |->
        [j \in 1..n |-> IF <<i - 1, j - 1>> \in ones THEN 1 ELSE negated[i][j]]]

(***************************************************************************)
(* S5: compute_e_matrices.                                                 *)
(***************************************************************************)
\* the imaginary parts of the n eigenvalues of a real matrix: complex
\* eigenvalues come in adjacent conjugate pairs, here up to `pairs` of
\* them after the first eigenvalue, which is real like the last ones
ImagParts(n, pairs) ==
  {[i \in 1..n |->
      IF i >= 2 /\ i <= 2 * k + 1 THEN (IF i % 2 = 0 THEN v ELSE 0 - v) ELSE 0] :
   k \in 0..pairs, v \in 1..MaxImag}

\* the real parts of the n x n eigenvector matrix with number s
EigenVectors(s, n) ==
  [i \in 1..n |-> [j \in 1..n |-> (((i + s) * j + (i \div 3)) % 4) - 1]]

\* vnl_real_eigensystem: the outcomes of the decomposition of the square
\* real matrix m; D holds the imaginary parts of the eigenvalues, V the real
\* parts of the eigenvector matrix
vnl_real_eigensystem(m) ==
  {[D |-> d, V |-> EigenVectors(s, Len(m))] :
     d \in ImagParts(Len(m), MaxPairs), s \in 0..MaxVecSeed}

\* lines 383-386: w_inv, x, y, z for eigenvalue i (i = 0..9), read from
\* V.get(i, 9), V.get(i, 6), V.get(i, 7), V.get(i, 8)
Unknowns(eigs, i) ==
  LET w_inv == FDiv(FromInt(1), FromInt(eigs.V[i + 1][9 + 1]))
  IN [w_inv |-> w_inv,
      x |-> FMul(FromInt(eigs.V[i + 1][6 + 1]), w_inv),
      y |-> FMul(FromInt(eigs.V[i + 1][7 + 1]), w_inv),
      z |-> FMul(FromInt(eigs.V[i + 1][8 + 1]), w_inv)]

\* lines 388-389: x * basis[0] + y * basis[1] + z * basis[2] + basis[3]
LinearE(basis, u) ==
  [k \in 1..NumEntries |->
     FAdd(FAdd(FAdd(FMul(u.x, FromInt(basis[1][k])),
                    FMul(u.y, FromInt(basis[2][k]))),
               FMul(u.z, FromInt(basis[3][k]))),
          FromInt(basis[4][k]))]

\* lines 390-393: linear_e divided by its entry 8, as a 3x3 matrix
EssentialFrom(linear_e) ==
  LET scaled == [k \in 1..NumEntries |-> FDiv(linear_e[k], linear_e[8 + 1])]
  IN [r \in 1..3 |-> [c \in 1..3 |-> scaled[3 * (r - 1) + c]]]

\* lines 381-393: the matrix made from eigenvalue i (i = 0..9)
EMatrix(basis, eigs, i) == EssentialFrom(LinearE(basis, Unknowns(eigs, i)))

\* the call emptying the list before it appends
compute_e_matrices_Clearing(basis, eigs, ems, tol) ==
  LET RECURSIVE Loop(_)
      Loop(i) ==
        IF i = 0 THEN <<>>
        ELSE IF Abs(eigs.D[i]) <= tol
             THEN Append(Loop(i - 1), EMatrix(basis, eigs, i - 1))
             ELSE Loop(i - 1)
  IN Loop(Len(eigs.D))

\* the loop with a strict comparison against the tolerance
compute_e_matrices_Strict(basis, eigs, ems, tol) ==
  LET RECURSIVE Loop(_)
      Loop(i) ==
        IF i = 0 THEN ems
        ELSE IF Abs(eigs.D[i]) < tol
             THEN Append(Loop(i - 1), EMatrix(basis, eigs, i - 1))
             ELSE Loop(i - 1)
  IN Loop(Len(eigs.D))

\* lines 379-395: the list ems after the call
compute_e_matrices(basis, eigs, ems, tol) ==
  LET RECURSIVE Loop(_)
      Loop(i) ==
        IF i = 0 THEN ems
        ELSE IF Abs(eigs.D[i]) <= tol
             THEN Append(Loop(i - 1), EMatrix(basis, eigs, i - 1))
             ELSE Loop(i - 1)
  IN Loop(Len(eigs.D))

(***************************************************************************)
(* The state: the fields of the solver, the arguments and the locals of    *)
(* compute, and the position of compute.                                   *)
(***************************************************************************)
VARIABLES
  verbose,          \* field verbose
  tolerance,        \* field tolerance, in units of the imaginary parts
  pc,               \* position of compute
  right_points,     \* argument right_points
  left_points,      \* argument left_points
  ems,              \* argument ems, the caller's list of matrices
  ems_at_call,      \* ems as it was when compute was called
  ret,              \* value returned by compute, "none" before it returns
  diag,             \* whether the diagnostic of line 85 was written
  ran,              \* the stages compute has called so far
  A,                \* compute_nullspace_basis: local A
  V,                \* compute_nullspace_basis: local V
  basis,            \* compute: local basis
  constraints,      \* compute: local constraints
  M,                \* compute_groebner_basis: local A (10x20)
  groebner_basis,   \* compute: local groebner_basis
  action_prev,      \* compute: action_matrix as declared on line 108
  action_matrix,    \* compute: local action_matrix
  eigs,             \* compute_e_matrices: local eigs
  recording,        \* vgui_blackbox_tableau: field recording
  events,           \* vgui_blackbox_tableau: field events
  child,            \* vgui_blackbox_tableau: whether the tableau has a child
  event,            \* argument of the last call of handle, NoEvent before
  sent,             \* what the last call of handle passed to the child
  result            \* value returned by the last call of handle, "none" before

\* the solver, its caller and the locals of compute
solver == <<verbose, tolerance, pc, right_points, left_points, ems, ems_at_call,
            ret, diag, ran, A, V, basis, constraints, M, groebner_basis,
            action_prev, action_matrix, eigs>>

\* the blackbox tableau and the record of its calls
tableau == <<recording, events, child, event, sent, result>>

vars == <<solver, tableau>>

\* the value of event before the first call of handle
NoEvent == [type |-> "NONE", key |-> ""]

\* lines 77-81 of vgui_mfc_statusbar.h: a tableau just constructed
TableauConstructed ==
  /\ recording = FALSE
  /\ events = <<>>
  /\ event = NoEvent
  /\ sent = <<>>
  /\ result = "none"

\* a matrix the caller's list may already hold: the essential matrix of a
\* translation along x
PriorMatrix ==
  [r \in 1..3 |-> [c \in 1..3 |->
     FromInt(IF <<r, c>> = <<2, 3>> THEN -1 ELSE IF <<r, c>> = <<3, 2>> THEN 1 ELSE 0)]]

PriorLists == {[k \in 1..n |-> PriorMatrix] : n \in 0..MaxPrior}

\* what an n x n matrix declared without initialiser may hold
Declared(n) ==
  {[i \in 1..n |-> [j \in 1..n |-> g]] : g \in 0..MaxGarbage}

\* line 104: vnl_matrix<double> groebner_basis(10, 10)
GroebnerDeclared == Declared(NumConstraints)

\* an action matrix declared one row and one column too large
ActionDeclared_Wide == Declared(NumConstraints + 1)

\* line 108: vnl_matrix<double> action_matrix(10, 10)
ActionDeclared == Declared(NumConstraints)

\* a rejected call that reports success
RejectValue_True == TRUE

\* line 90: the value returned for a wrong number of points
RejectValue == FALSE

\* lines 31-32: a solver, and a caller about to call compute on its list
Init ==
  /\ verbose \in BOOLEAN
  /\ tolerance \in 0..MaxTol
  /\ pc = "idle"
  /\ right_points = <<>>
  /\ left_points = <<>>
  /\ ems \in PriorLists
  /\ ems_at_call = <<>>
  /\ ret = "none"
  /\ diag = FALSE
  /\ ran = <<>>
  /\ A = <<>>
  /\ V = <<>>
  /\ basis = <<>>
  /\ constraints = <<>>
  /\ M = <<>>
  /\ groebner_basis = <<>>
  /\ action_prev = <<>>
  /\ action_matrix = <<>>
  /\ eigs = <<>>
  /\ TableauConstructed
  /\ child = FALSE

\* lines 77-91: compute is called; the check of the number of points
Call ==
  /\ pc = "idle"
  /\ \E points \in PointPairs :
       /\ right_points' = points[1]
       /\ left_points' = points[2]
       /\ ems_at_call' = ems
       /\ IF Len(points[1]) # NumPoints \/ Len(points[2]) # NumPoints
          THEN /\ diag' = verbose
               /\ ret' = RejectValue
               /\ pc' = "returned"
          ELSE /\ diag' = FALSE
               /\ ret' = "none"
               /\ pc' = "S1"
  /\ UNCHANGED <<verbose, tolerance, ems, ran, A, V, basis, constraints, M,
                 groebner_basis, action_prev, action_matrix, eigs>>
  /\ UNCHANGED tableau

\* lines 95-96
S1 ==
  /\ pc = "S1"
  /\ A' = EpipolarMatrix(right_points, left_points)
  /\ \E v \in SvdTable[A'] :
       /\ V' = v
       /\ basis' = NullspaceBasis(v)
  /\ ran' = Append(ran, "S1")
  /\ pc' = "S2"
  /\ UNCHANGED <<verbose, tolerance, right_points, left_points, ems, ems_at_call,
                 ret, diag, constraints, M, groebner_basis, action_prev,
                 action_matrix, eigs>>
  /\ UNCHANGED tableau

\* lines 100-101
S2 ==
  /\ pc = "S2"
  /\ constraints' = compute_constraint_polynomials(basis, <<>>)
  /\ ran' = Append(ran, "S2")
  /\ pc' = "S3"
  /\ UNCHANGED <<verbose, tolerance, right_points, left_points, ems, ems_at_call,
                 ret, diag, A, V, basis, M, groebner_basis, action_prev,
                 action_matrix, eigs>>
  /\ UNCHANGED tableau

\* lines 104-105
S3 ==
  /\ pc = "S3"
  /\ M' = CoefficientMatrix(constraints)
  /\ \E declared \in GroebnerDeclared :
       groebner_basis' = compute_groebner_basis(constraints, declared)
  /\ ran' = Append(ran, "S3")
  /\ pc' = "S4"
  /\ UNCHANGED <<verbose, tolerance, right_points, left_points, ems, ems_at_call,
                 ret, diag, A, V, basis, constraints, action_prev,
                 action_matrix, eigs>>
  /\ UNCHANGED tableau

\* lines 108-109
S4 ==
  /\ pc = "S4"
  /\ \E declared \in ActionDeclared :
       /\ action_prev' = declared
       /\ action_matrix' = compute_action_matrix(groebner_basis, declared)
  /\ ran' = Append(ran, "S4")
  /\ pc' = "S5"
  /\ UNCHANGED <<verbose, tolerance, right_points, left_points, ems, ems_at_call,
                 ret, diag, A, V, basis, constraints, M, groebner_basis, eigs>>
  /\ UNCHANGED tableau

\* line 113
S5 ==
  /\ pc = "S5"
  /\ \E es \in vnl_real_eigensystem(action_matrix) :
       /\ eigs' = es
       /\ ems' = compute_e_matrices(basis, es, ems, tolerance)
  /\ ran' = Append(ran, "S5")
  /\ pc' = "end"
  /\ UNCHANGED <<verbose, tolerance, right_points, left_points, ems_at_call,
                 ret, diag, A, V, basis, constraints, M, groebner_basis,
                 action_prev, action_matrix>>
  /\ UNCHANGED tableau

\* line 114: compute ends without a return statement, so the caller reads an
\* indeterminate value; the locals of compute are destroyed
FallOff ==
  /\ pc = "end"
  /\ ret' \in BOOLEAN
  /\ pc' = "returned"
  /\ A' = <<>>
  /\ V' = <<>>
  /\ basis' = <<>>
  /\ constraints' = <<>>
  /\ M' = <<>>
  /\ groebner_basis' = <<>>
  /\ action_prev' = <<>>
  /\ action_matrix' = <<>>
  /\ eigs' = <<>>
  /\ UNCHANGED <<verbose, tolerance, right_points, left_points, ems, ems_at_call,
                 diag, ran>>
  /\ UNCHANGED tableau

Next == Call \/ S1 \/ S2 \/ S3 \/ S4 \/ S5 \/ FallOff

Spec == Init /\ [][Next]_vars

(***************************************************************************)
(* compute_groebner_basis called on its own, on ten constraints with small *)
(* coefficients.                                                           *)
(***************************************************************************)
\* constraint i has coefficient 2 at the i-th monomial and 1 at the others,
\* and constraint r has v more at the (r + 10)-th monomial
GroebnerInput(r, v) ==
  [i \in 1..NumConstraints |->
     [m \in Monomials |->
        (IF m = MonomialOrder[i] THEN 2 ELSE 1)
        + (IF i = r /\ m = MonomialOrder[r + NumConstraints] THEN v ELSE 0)]]

GroebnerInputs ==
  {GroebnerInput(r, v) : r \in 1..NumConstraints, v \in -MaxBump..MaxBump}

InitGroebner ==
  /\ verbose = FALSE
  /\ tolerance = 0
  /\ pc = "S3"
  /\ right_points = <<>>
  /\ left_points = <<>>
  /\ ems = <<>>
  /\ ems_at_call = <<>>
  /\ ret = "none"
  /\ diag = FALSE
  /\ ran = <<>>
  /\ A = <<>>
  /\ V = <<>>
  /\ basis = <<>>
  /\ constraints \in GroebnerInputs
  /\ M = <<>>
  /\ groebner_basis = <<>>
  /\ action_prev = <<>>
  /\ action_matrix = <<>>
  /\ eigs = <<>>
  /\ TableauConstructed
  /\ child = FALSE

SpecGroebner == InitGroebner /\ [][S3]_vars

(***************************************************************************)
(* vgui_blackbox_tableau (vgui_mfc_statusbar.h, lines 51-222).             *)
(***************************************************************************)
\* the keys handle tells apart, and "a" for any other key
Keys == {",", ".", "s", "/", "#", "?", "a"}

\* the events handle tells apart: key presses, draw events, any other type
Events ==
  {[type |-> "KEY_PRESS", key |-> k] : k \in Keys}
  \cup {[type |-> t, key |-> ""] : t \in {"DRAW", "MOTION"}}

IsKey(e, k) == e.type = "KEY_PRESS" /\ e.key = k

\* lines 137-175: what a playback passes to the child, one entry for each
\* recorded event in order: post_redraw for a draw event, handle otherwise
Replay(evs) ==
  [k \in 1..Len(evs) |->
     [op |-> IF evs[k].type = "DRAW" THEN "post_redraw" ELSE "handle",
      event |-> evs[k]]]

\* recording an event whether or not the child used it
RecordEvent_Unused(evs, rec, used, copy) ==
  IF rec THEN Append(evs, copy) ELSE evs

\* lines 213-218: the list events after the child has answered
RecordEvent(evs, rec, used, copy) ==
  IF rec /\ used THEN Append(evs, copy) ELSE evs

\* clearing the events whether or not the tableau is recording
ClearAllowed_Always(rec) == TRUE

\* line 193: the test that guards events.clear()
ClearAllowed(rec) == ~rec

\* lines 110-120: ',' starts or stops the recording
Toggle ==
  /\ \E e \in Events :
       /\ IsKey(e, ",")
       /\ event' = e
  /\ recording' = ~recording
  /\ sent' = <<>>
  /\ result' = TRUE
  /\ UNCHANGED <<events, child>>
  /\ UNCHANGED solver

\* lines 122-179: 's' and '.' play the recorded events back, unless the
\* tableau is recording
Playback ==
  /\ \E e \in Events :
       /\ IsKey(e, "s") \/ IsKey(e, ".")
       /\ event' = e
  /\ sent' = IF ~recording /\ child THEN Replay(events) ELSE <<>>
  /\ result' = TRUE
  /\ UNCHANGED <<recording, events, child>>
  /\ UNCHANGED solver

\* lines 181-189: '/' prints the events when the tableau is not recording
PrintEvents ==
  /\ ~recording
  /\ \E e \in Events :
       /\ IsKey(e, "/")
       /\ event' = e
  /\ sent' = <<>>
  /\ result' = TRUE
  /\ UNCHANGED <<recording, events, child>>
  /\ UNCHANGED solver

\* lines 192-197: '#' clears the events when the tableau is not recording
ClearEvents ==
  /\ ClearAllowed(recording)
  /\ \E e \in Events :
       /\ IsKey(e, "#")
       /\ event' = e
  /\ events' = <<>>
  /\ sent' = <<>>
  /\ result' = TRUE
  /\ UNCHANGED <<recording, child>>
  /\ UNCHANGED solver

\* lines 190, 198, 200-221: every other event goes to the child, and is
\* recorded if the tableau is recording and the child used it
Pass ==
  \E e \in Events, answer \in BOOLEAN :
     LET used == child /\ answer
     IN /\ ~IsKey(e, ",") /\ ~IsKey(e, "s") /\ ~IsKey(e, ".")
        /\ IsKey(e, "/") => recording
        /\ IsKey(e, "#") => ~ClearAllowed(recording)
        /\ (recording /\ used) => Len(events) < MaxStored
        /\ event' = e
        /\ sent' = IF child THEN <<[op |-> "handle", event |-> e]>> ELSE <<>>
        /\ events' = RecordEvent(events, recording, used, e)
        /\ result' = used
        /\ UNCHANGED <<recording, child>>
        /\ UNCHANGED solver

\* lines 77-81: the tableau after construction, with or without a child
InitBlackbox ==
  /\ verbose = FALSE
  /\ tolerance = 0
  /\ pc = "idle"
  /\ right_points = <<>>
  /\ left_points = <<>>
  /\ ems = <<>>
  /\ ems_at_call = <<>>
  /\ ret = "none"
  /\ diag = FALSE
  /\ ran = <<>>
  /\ A = <<>>
  /\ V = <<>>
  /\ basis = <<>>
  /\ constraints = <<>>
  /\ M = <<>>
  /\ groebner_basis = <<>>
  /\ action_prev = <<>>
  /\ action_matrix = <<>>
  /\ eigs = <<>>
  /\ TableauConstructed
  /\ child \in BOOLEAN

NextBlackbox == Toggle \/ Playback \/ PrintEvents \/ ClearEvents \/ Pass

SpecBlackbox == InitBlackbox /\ [][NextBlackbox]_vars

(***************************************************************************)
(* Properties of compute.                                                  *)
(***************************************************************************)
ValidInput == Len(right_points) = NumPoints /\ Len(left_points) = NumPoints

\* the matrices the call has appended to the caller's list
Appended == SubSeq(ems, Len(ems_at_call) + 1, Len(ems))

FiniteMatrix(m) == \A r \in 1..3, c \in 1..3 : IsFinite(m[r][c])

\* C1 as stated: a call with a point list that does not hold exactly 5
\* points returns false, runs no stage, and the list of matrices is empty
\* after the call.
C1_EmptyAfterRejection ==
  (pc = "returned" /\ ~ValidInput) => (ret = FALSE /\ ran = <<>> /\ ems = <<>>)

\* C1 as amended: a call with a point list that does not hold exactly 5
\* points returns false, runs no stage, and leaves the list of matrices
\* exactly as the caller passed it (empty only if it was passed empty).
C1_Rejected ==
  (pc = "returned" /\ ~ValidInput) =>
     (ret = FALSE /\ ran = <<>> /\ ems = ems_at_call)

C1_Witness ==
  /\ pc = "returned"
  /\ Len(right_points) = NumPoints
  /\ Len(left_points) = NumPoints - 1
  /\ ems # <<>>

\* C2: compute returns true exactly when both point lists hold 5 points.
C2_ReturnsTrueIffValid ==
  pc = "returned" => (ret = TRUE <=> ValidInput)

\* the residual right^T * E * left of the correspondence i for the matrix E
Residual(E, i) ==
  LET pr == <<right_points[i][1], right_points[i][2], 1>>
      pl == <<left_points[i][1], left_points[i][2], 1>>
  IN FSumTo([k \in 1..NumEntries |->
               LET r == ((k - 1) \div 3) + 1
                   c == ((k - 1) % 3) + 1
               IN FMul(FromInt(pr[r] * pl[c]), E[r][c])],
            NumEntries)

\* C3: every (finite) matrix E that compute returns satisfies
\* right^T * E * left = 0 for each of the five correspondences.
C3_Epipolar ==
  (pc = "returned" /\ ValidInput) =>
     \A k \in 1..Len(Appended) :
        FiniteMatrix(Appended[k]) =>
           \A i \in 1..NumPoints : Residual(Appended[k], i) = FromInt(0)

\* C4 as stated: after compute returns on valid input the list of matrices
\* has between 0 and 10 entries.
C4_AtMostTenEntries ==
  (pc = "returned" /\ ValidInput) => Len(ems) \in 0..NumConstraints

\* C4 as amended: on valid input compute appends between 0 and 10 matrices
\* to the list, so the list has between 0 and 10 entries when it was passed
\* empty.
C4_AtMostTenAppended ==
  (pc = "returned" /\ ValidInput) =>
     /\ Len(ems) - Len(ems_at_call) \in 0..NumConstraints
     /\ ems_at_call = <<>> => Len(ems) \in 0..NumConstraints

C4_Witness ==
  /\ pc = "returned"
  /\ ValidInput
  /\ ems_at_call # <<>>
  /\ Len(ems) = Len(ems_at_call) + NumConstraints

\* the indices (from 1) of the eigenvalues whose imaginary part is within
\* the tolerance
Accepted == {i \in 1..Len(eigs.D) : -tolerance <= eigs.D[i] /\ eigs.D[i] <= tolerance}

\* C5: compute_e_matrices appends exactly one matrix for each eigenvalue
\* whose imaginary part has absolute value <= tolerance, none for the
\* others, in increasing order of the eigenvalue index.
C5_OnePerAcceptedEigenvalue ==
  pc = "end" =>
     /\ Len(Appended) = Cardinality(Accepted)
     /\ \A i \in Accepted :
          Appended[Cardinality({j \in Accepted : j <= i})] = EMatrix(basis, eigs, i - 1)

C5_Witness ==
  /\ pc = "end"
  /\ tolerance > 0
  /\ \E i \in 1..Len(eigs.D) : eigs.D[i] = -tolerance
  /\ Len(Appended) = Len(eigs.D)

(***************************************************************************)
(* Properties of the stages.                                               *)
(***************************************************************************)
\* the constraint C_i (i = 0..8) with its four terms
FullConstraint(ep, i) ==
  PolySub(PolyAdd(PolyAdd(ConstraintTerm(ep, i, 0), ConstraintTerm(ep, i, 3)),
                  ConstraintTerm(ep, i, 6)),
          PolyMul(ep[i + 1], SumOfSquares(ep)))

\* C6: after compute_constraint_polynomials the list holds the determinant
\* polynomial at position 0, with nothing added to it, and the complete
\* constraint C_i at position i+1.
C6_DetThenConstraints ==
  pc = "S3" =>
     LET ep == EntryPolynomials(basis)
     IN /\ Len(constraints) = NumConstraints
        /\ constraints[1] = DetPolynomial(ep)
        /\ \A i \in 0..(NumEntries - 1) : constraints[i + 2] = FullConstraint(ep, i)

\* C7: groebner_basis holds columns 10..19 of the reduced row echelon form
\* of the coefficient matrix.
C7_ReducedBlock ==
  pc = "S4" =>
     LET reduced == vnl_rank_row_reduce(M)
     IN \A i \in 1..NumConstraints, j \in 1..NumConstraints :
           FromInt(groebner_basis[i][j]) = reduced[i][j + NumConstraints]

\* C8: entry (i, j) of the coefficient matrix is the coefficient of the
\* j-th monomial of the fixed order in constraint i, which is 0 for a
\* monomial that is not a term of the constraint.
C8_Coefficients ==
  pc = "S4" =>
     \A i \in 1..NumConstraints, j \in 1..NumMonomials :
        M[i][j] = constraints[i][MonomialOrder[j]]

\* the monomials the rows and columns of the action matrix stand for:
\* x2 xy y2 xz yz z2 x y z 1
BasisMonomials == SubSeq(MonomialOrder, NumConstraints + 1, NumMonomials)

\* the leading monomials, one for each row of groebner_basis
LeadingMonomials == SubSeq(MonomialOrder, 1, NumConstraints)

\* the monomial m times the variable v (1 for x, 2 for y, 3 for z)
Times(m, v) == [k \in 1..3 |-> IF k = v THEN m[k] + 1 ELSE m[k]]

IndexIn(seq, m) == CHOOSE k \in 1..Len(seq) : seq[k] = m

\* rows 6..9 of the action matrix hold a single 1, at the column of the
\* variable v times the monomial of the row
UnitRowsMultiplyBy(v) ==
  \A r \in 7..NumConstraints, j \in 1..NumConstraints :
     action_matrix[r][j] =
        IF j = IndexIn(BasisMonomials, Times(BasisMonomials[r], v)) THEN 1 ELSE 0

\* C9 as stated: the action matrix is that of the multiplication by z: the
\* rows 6, 7, 8, 9 stand for x, y, z, 1 and hold their 1 at the columns of
\* xz, yz, z2, z.
C9_MultiplicationByZ == pc = "S5" => UnitRowsMultiplyBy(3)

\* C9 as amended: the action matrix is that of the multiplication by x: the
\* rows 6, 7, 8, 9 stand for x, y, z, 1 and hold their 1 at the columns of
\* x2, xy, xz, x, and the rows 0..5 stand for x2, xy, y2, xz, yz, z2 and hold
\* the negated row of groebner_basis whose leading monomial is x times
\* theirs.
C9_MultiplicationByX ==
  pc = "S5" =>
     /\ UnitRowsMultiplyBy(1)
     /\ \A r \in 1..6, j \in 1..NumConstraints :
          action_matrix[r][j] =
             0 - groebner_basis[IndexIn(LeadingMonomials, Times(BasisMonomials[r], 1))][j]

C9_Witness ==
  /\ pc = "S5"
  /\ \E j \in 1..NumConstraints : groebner_basis[8][j] # 0 /\ action_matrix[6][j] # 0
  /\ action_matrix[9][4] = 1

\* C10: rows 0..5 of the action matrix are the negated rows 0, 1, 2, 4, 5, 7
\* of groebner_basis, and rows 6..9 hold a 1 at columns 0, 1, 3, 6 and 0
\* elsewhere, whatever the matrix held before the call.
C10_ActionMatrixRows ==
  pc = "S5" =>
     /\ \A j \in 1..NumConstraints :
          /\ action_matrix[1][j] = -groebner_basis[1][j]
          /\ action_matrix[2][j] = -groebner_basis[2][j]
          /\ action_matrix[3][j] = -groebner_basis[3][j]
          /\ action_matrix[4][j] = -groebner_basis[5][j]
          /\ action_matrix[5][j] = -groebner_basis[6][j]
          /\ action_matrix[6][j] = -groebner_basis[8][j]
          /\ action_matrix[7][j] = (IF j = 1 THEN 1 ELSE 0)
          /\ action_matrix[8][j] = (IF j = 2 THEN 1 ELSE 0)
          /\ action_matrix[9][j] = (IF j = 4 THEN 1 ELSE 0)
          /\ action_matrix[10][j] = (IF j = 7 THEN 1 ELSE 0)
     /\ Len(action_matrix) = NumConstraints

C10_Witness ==
  /\ pc = "S5"
  /\ action_prev[7][2] # 0
  /\ action_matrix[7][2] = 0
  /\ \E j \in 1..NumConstraints : groebner_basis[5][j] # 0

(***************************************************************************)
(* Properties of the eigenvector extraction.                               *)
(***************************************************************************)
\* the position in the appended matrices of the one made for the accepted
\* eigenvalue with index i (from 1)
RankOf(i) == Cardinality({j \in Accepted : j <= i})

\* w_inv, x, y, z from the components 9, 6, 7, 8 of column i (i = 0..9) of
\* the eigenvector matrix, the right eigenvector of eigenvalue i
ColumnUnknowns(e, i) ==
  LET w_inv == FDiv(FromInt(1), FromInt(e.V[9 + 1][i + 1]))
  IN [w_inv |-> w_inv,
      x |-> FMul(FromInt(e.V[6 + 1][i + 1]), w_inv),
      y |-> FMul(FromInt(e.V[7 + 1][i + 1]), w_inv),
      z |-> FMul(FromInt(e.V[8 + 1][i + 1]), w_inv)]

\* C11: for each accepted eigenvalue i, the matrix appended for it is made
\* from x, y, z and w taken from components 6, 7, 8, 9 of column i of V, the
\* right eigenvector that belongs to eigenvalue i.
C11_FromOwnEigenvector ==
  pc = "end" =>
     \A i \in Accepted :
        /\ RankOf(i) <= Len(Appended)
        /\ Appended[RankOf(i)] =
              EssentialFrom(LinearE(basis, ColumnUnknowns(eigs, i - 1)))

\* the accepted eigenvalues whose candidate divides by zero: V.get(i, 9) is
\* 0, or entry 8 of linear_e is 0
ZeroDivisor ==
  {i \in Accepted :
     \/ eigs.V[i][9 + 1] = 0
     \/ LinearE(basis, Unknowns(eigs, i - 1))[8 + 1].n = 0}

\* C12: a candidate whose divisor is zero is skipped: the call appends one
\* matrix for each accepted eigenvalue with nonzero divisors and no other,
\* so every appended matrix has finite entries.
C12_ZeroDivisorSkipped ==
  pc = "end" =>
     /\ Len(Appended) = Cardinality(Accepted \ ZeroDivisor)
     /\ \A k \in 1..Len(Appended) : FiniteMatrix(Appended[k])

(***************************************************************************)
(* Properties of the nullspace basis.                                      *)
(***************************************************************************)
\* C13: after compute_nullspace_basis the basis holds exactly four vectors,
\* B_k[j] = V[j][5 + k] for k = 0..3 and j = 0..8, whatever the tolerance
\* is; B0, B1, B2 are the coefficients of x, y, z in the entries of E and B3
\* is their constant part (w = 1).
C13_LastFourColumns ==
  pc = "S2" =>
     /\ Len(basis) = NumBasis
     /\ \A k \in 0..(NumBasis - 1), j \in 0..(NumEntries - 1) :
          basis[k + 1][j + 1] = V[j + 1][NumPoints + k + 1]
     /\ \A j \in 1..NumEntries :
          LET e == EntryPolynomials(basis)[j]
          IN /\ e[<<1, 0, 0>>] = V[j][NumPoints + 1]
             /\ e[<<0, 1, 0>>] = V[j][NumPoints + 2]
             /\ e[<<0, 0, 1>>] = V[j][NumPoints + 3]
             /\ e[<<0, 0, 0>>] = V[j][NumEntries]

C13_Witness ==
  /\ pc = "S2"
  /\ tolerance > 0
  /\ Len(basis) = NumBasis
  /\ \E j \in 1..NumEntries : basis[NumBasis][j] # 0 /\ basis[NumBasis][j] # V[j][NumBasis]
  /\ basis[1] # basis[NumBasis]

(***************************************************************************)
(* The caller's list across calls.                                         *)
(***************************************************************************)
IsPrefix(s, t) == Len(s) <= Len(t) /\ SubSeq(t, 1, Len(s)) = s

\* C14: no step of compute removes or rewrites an entry of the caller's
\* list, whatever the list holds when compute is called: a step only
\* appends, a call with a wrong number of points leaves the list as it was,
\* and a call with valid input returns the list it was given followed by
\* 0..10 new matrices.
C14_OnlyAppends ==
  /\ [][/\ IsPrefix(ems, ems')
        /\ (pc = "idle" /\ pc' = "returned") => ems' = ems]_vars
  /\ [](pc \in {"end", "returned"} =>
          /\ IsPrefix(ems_at_call, ems)
          /\ Len(ems) - Len(ems_at_call) <= NumConstraints
          /\ ~ValidInput => ems = ems_at_call)

C14_Witness ==
  /\ pc = "returned"
  /\ ValidInput
  /\ ems_at_call # <<>>
  /\ Len(ems) > NumConstraints
  /\ ems[1] = PriorMatrix
  /\ ems[Len(ems)] # PriorMatrix

(***************************************************************************)
(* Properties of vgui_blackbox_tableau::handle.                            *)
(***************************************************************************)
\* the key presses handle consumes without passing them to the child
Consumed(e) == IsKey(e, ",") \/ IsKey(e, ".") \/ IsKey(e, "s")

\* C15: a call of handle stores an event only if the tableau was recording
\* when it received it, it has a child, the child was handed the event and
\* returned true, and the event is not one of the key presses ',', '.',
\* 's'; it then stores that event, once, at the end of the list. So the list
\* never holds a consumed key press, and holds nothing without a child.
C15_StoredOnlyIfRecordedAndUsed ==
  /\ [][Len(events') > Len(events) =>
          /\ events' = Append(events, event')
          /\ recording
          /\ child
          /\ sent' = <<[op |-> "handle", event |-> event']>>
          /\ result' = TRUE
          /\ ~Consumed(event')]_vars
  /\ [](/\ \A k \in 1..Len(events) : ~Consumed(events[k])
        /\ events # <<>> => child)

C15_Witness ==
  /\ recording
  /\ child
  /\ Len(events) = 2
  /\ IsKey(events[1], "#")
  /\ events[2].type = "DRAW"
  /\ event.type = "MOTION"
  /\ result = FALSE

\* C16: a '.' or 's' key press received while recording passes nothing to
\* the child, leaves recording and events unchanged and returns true; the
\* list of events loses entries only by a '#' key press received while not
\* recording; and a '.' or 's' key press received while not recording passes
\* the recorded events to the child in recorded order and leaves the list
\* unchanged.
C16_PlaybackAndClearOnlyWhenIdle ==
  [][/\ (IsKey(event', ".") \/ IsKey(event', "s")) /\ recording =>
          /\ sent' = <<>>
          /\ recording' = recording
          /\ events' = events
          /\ result' = TRUE
     /\ ~IsPrefix(events, events') =>
          /\ IsKey(event', "#")
          /\ ~recording
          /\ events' = <<>>
     /\ (IsKey(event', ".") \/ IsKey(event', "s")) /\ ~recording =>
          /\ Len(sent') = Len(events)
          /\ \A k \in 1..Len(events) : sent'[k].event = events[k]
          /\ events' = events
          /\ recording' = recording
          /\ result' = TRUE]_vars

C16_Witness ==
  /\ ~recording
  /\ IsKey(event, "s")
  /\ Len(events) = 2
  /\ events[1] # events[2]
  /\ sent = Replay(events)
  /\ sent[1].op = "post_redraw"
  /\ sent[2].op = "handle"

====
